---- MODULE Spec2Model ----
(***************************************************************************)
(* Booking lifecycle of the Domio backend (controllers/bookingController). *)
(* The place operations of controllers/placeController and the register   *)
(* handler of controllers/authController are modelled on the same          *)
(* collections.                                                            *)
(*                                                                         *)
(* Every Express handler is an async function: it runs without             *)
(* interruption between two awaits and may interleave with any other       *)
(* request at an await.  A handler is therefore a short sequence of        *)
(* steps, one per awaited storage call, executed by a worker.              *)
(*                                                                         *)
(* Units: a date is a whole number of half days (oneDay = 2 half days);    *)
(* every amount (a base price, price, serviceFee, totalAmount) is a whole  *)
(* number of hundredths of a rupee, which is the precision of toFixed(2).  *)
(***************************************************************************)
EXTENDS Integers, Sequences, FiniteSets, TLC

VARIABLES bookings, places, users, req, resp, clock

vars == <<bookings, places, users, req, resp, clock>>

(* ------------------------------ bounds ------------------------------- *)

\* documents the booking collection may hold in the lifecycle specifications
MaxBookings == 1
\* documents the booking collection may hold in the availability specification
MaxStays == 2
\* dates a request may name are 1..MaxDate (in half days)
MaxDate == 4
\* readings of Date.now() / new Date() are 0..MaxClock
MaxClock == 1
\* documents the place collection may hold in the place specification
MaxPlaces == 2
\* documents the user collection may hold in the registration specification
MaxUsers == 2
\* base prices of the pricing specification lie within PriceSpread hundredths
\* of the price at which 5% reaches the fee floor
PriceSpread == 30

Workers == {"w1", "w2"}

(* ----------------------------- constants ----------------------------- *)

PENDING == "pending"
CONFIRMED == "confirmed"
CANCELED == "canceled"

BOOKING_STATUS == {PENDING, CONFIRMED, CANCELED}

\* 1000 * 60 * 60 * 24 ms, in half days
oneDay == 2
\* Math.max(50, ...): the fee floor, in rupees
minimumFee == 50
\* toFixed(2): hundredths in a rupee
hundredths == 100
\* price * 0.05, as a percentage
feeRatePercent == 5

(* --------------------------- value domains --------------------------- *)

\* req.user is absent for an unauthenticated request; booking.user is null then
NoUser == "none"
Users == {"u1", "u2"}
Requesters == Users \cup {NoUser}

\* a date field of the body: 0 is an absent (falsy) value, -1 a string that
\* new Date() cannot parse, anything else a date
NoDate == 0
BadDate == -1
Dates == 1..MaxDate

\* a document of the Place collection: its owner, a field an edit may change,
\* its base price, and whether deleteOne() has removed it
PlaceDoc(owner, title, price) ==
    [owner |-> owner, title |-> title, price |-> price, deleted |-> FALSE]

\* the places listed before the first request: base prices 1000.00, 1000.19
\* and 0 (a price is any number that is not negative)
PlaceCatalog ==
    <<PlaceDoc("u1", "a", 100000), PlaceDoc("u1", "a", 100019), PlaceDoc("u2", "a", 0)>>

\* catalog collaborators: Experience / Service findById, base prices 500.00, 0
ExperienceCatalog == [i \in {1} |-> 50000]
ServiceCatalog == [i \in {1} |-> 0]
NoItem == 0

PlaceIds == 1..Len(places)

\* Place.findById(id) returns a document
PlaceFound(id) == id \in PlaceIds /\ ~places[id].deleted

\* a well-formed id of no place
UnknownPlace == Len(PlaceCatalog) + 1

NoTxn == <<>>

Max(a, b) == IF a >= b THEN a ELSE b

\* n / d rounded to the nearest whole number, for n >= 0 and d > 0: what
\* toFixed does to a value in units of 1/d of its last digit (a tie goes by the
\* binary value of the number; no price of the catalogs produces one)
RoundDiv(n, d) == (2 * n + d) \div (2 * d)

\* Math.ceil(a / b) for a >= 0, b > 0
Ceil(a, b) == (a + b - 1) \div b

(* ------------------------- the booking document ---------------------- *)

NoDoc == [type |-> "none"]

BookingIds == 1..Len(bookings)

(* ------------------------------ requests ----------------------------- *)

NoBody == [type |-> "none"]

Idle == [op |-> "none", pc |-> "idle", id |-> 0, user |-> NoUser,
         body |-> NoBody, doc |-> NoDoc]

\* the answer the last step sent to a caller, NoResp when it sent none
NoResp == [op |-> "none", id |-> 0, user |-> NoUser, code |-> 0, error |-> "",
           transactionId |-> NoTxn]

\* res.status(code).json({success, error}): the handler is over
Respond(w, op, id, user, code, error) ==
    /\ req' = [req EXCEPT ![w] = Idle]
    /\ resp' = [op |-> op, id |-> id, user |-> user, code |-> code, error |-> error,
                transactionId |-> NoTxn]

\* res.json({success: true, transactionId, ...})
RespondTxn(w, op, id, user, txn) ==
    /\ req' = [req EXCEPT ![w] = Idle]
    /\ resp' = [op |-> op, id |-> id, user |-> user, code |-> 200, error |-> "",
                transactionId |-> txn]

\* the handler goes on to its next awaited call
Await(w, op, pc, id, user, body, doc) ==
    /\ req' = [req EXCEPT ![w] = [op |-> op, pc |-> pc, id |-> id, user |-> user,
                                  body |-> body, doc |-> doc]]
    /\ resp' = NoResp

(* ------------------------- createBooking: input ---------------------- *)

Digits == {"0", "1", "2", "3", "4", "5", "6", "7", "8", "9"}
Letters == {"A", "l", "i"}

\* /^[6-9]\d{9}$/
phoneRegex(phone) ==
    /\ Len(phone) = 10
    /\ phone[1] \in {"6", "7", "8", "9"}
    /\ \A i \in 1..Len(phone) : phone[i] \in Digits

\* /^[A-Za-z\s]{2,}$/
nameRegex(name) ==
    /\ Len(name) >= 2
    /\ \A i \in 1..Len(name) : name[i] \in Letters \cup {" "}

GoodPhone == <<"9", "8", "7", "6", "5", "4", "3", "2", "1", "0">>
GoodName == <<"A", "l", "i">>

\* a well-formed request body for a place, and for an experience or service
PlaceBody(itemId, checkIn, checkOut) ==
    [type |-> "place", itemId |-> itemId, checkIn |-> checkIn, checkOut |-> checkOut,
     date |-> NoDate, numberOfGuests |-> 2, name |-> GoodName, phone |-> GoodPhone,
     paymentMethod |-> "card", transactionId |-> NoTxn, totalPrice |-> 0]

ItemBody(type, itemId, date, numberOfGuests) ==
    [type |-> type, itemId |-> itemId, checkIn |-> NoDate, checkOut |-> NoDate,
     date |-> date, numberOfGuests |-> numberOfGuests, name |-> GoodName,
     phone |-> GoodPhone, paymentMethod |-> "card", transactionId |-> NoTxn,
     totalPrice |-> 0]

\* a transaction id the caller supplies in the body
CallerTxn == <<"T1">>

\* the requests the model submits: place requests over every date range, two
\* requests at other places that carry the caller's transaction id,
\* experience and service requests, and one request for each way the
\* validation block and the catalog lookups can refuse
PlaceBodies ==
    {PlaceBody(1, ci, co) : ci \in Dates, co \in Dates}
        \cup {[PlaceBody(2, 1, MaxDate) EXCEPT !.transactionId = CallerTxn],
              [PlaceBody(3, 1, 2) EXCEPT !.transactionId = CallerTxn]}

\* stays that exercise the pricing: three nights, a night and a half, a free
\* place, a body that carries a totalPrice of its own, and a body that
\* carries a date next to its checkIn and checkOut
PricedBodies ==
    { PlaceBody(1, 1, 1 + 3 * oneDay), PlaceBody(2, 1, 1 + oneDay + 1),
      PlaceBody(3, 1, 2), [PlaceBody(1, 1, 2) EXCEPT !.totalPrice = 1],
      [PlaceBody(1, 1, 2) EXCEPT !.date = 1] }

ItemBodies ==
    {ItemBody(t, 1, 1, 2) : t \in {"experience", "service"}}

RefusedBodies ==
    { PlaceBody(UnknownPlace, 1, 2),
      PlaceBody(1, NoDate, 2), PlaceBody(1, 1, NoDate),
      PlaceBody(1, BadDate, 2), PlaceBody(1, 1, BadDate),
      PlaceBody(1, 2, 2), PlaceBody(1, 3, 1),
      ItemBody("experience", 2, 1, 2), ItemBody("service", 2, 1, 2),
      ItemBody("experience", 1, NoDate, 2), ItemBody("service", 1, NoDate, 2),
      ItemBody("hotel", 1, 1, 2),
      [PlaceBody(1, 1, 2) EXCEPT !.phone = <<>>],
      [PlaceBody(1, 1, 2) EXCEPT !.paymentMethod = ""],
      [PlaceBody(1, 1, 2) EXCEPT !.numberOfGuests = 0],
      [PlaceBody(1, 1, 2) EXCEPT !.numberOfGuests = -1],
      [PlaceBody(1, 1, 2) EXCEPT !.phone = <<"1", "2", "3", "4", "5", "6", "7", "8", "9", "0">>],
      [PlaceBody(1, 1, 2) EXCEPT !.phone = <<"9", "8", "7">>],
      [PlaceBody(1, 1, 2) EXCEPT !.name = <<"A">>],
      [PlaceBody(1, 1, 2) EXCEPT !.name = <<"A", "1">>],
      [PlaceBody(1, 1, 2) EXCEPT !.type = ""] }


\* the requests of the availability specification: stays at both places
AvailabilityRequests == {NoUser} \X PlaceBodies

\* the requests of the lifecycle specification: one stay, booked by a guest or
\* by a signed-in user, and a stay at a place that does not exist
LifecycleRequests ==
    ({NoUser, "u1"} \X {PlaceBody(1, 1, 2)}) \cup {<<NoUser, PlaceBody(UnknownPlace, 1, 2)>>}

\* the requests of the sequential specification: those, an experience, a
\* service, and every refused request
SeqRequests ==
    LifecycleRequests \cup ({"u1"} \X (ItemBodies \cup PricedBodies))
        \cup ({NoUser} \X RefusedBodies)

(* --------------------- createBooking: validation block --------------- *)

\* lines 35-72: the error the validation block answers with, "" when it passes
ValidationError(body) ==
    IF \/ body.type = "" \/ body.itemId = NoItem \/ body.numberOfGuests = 0
       \/ body.name = <<>> \/ body.phone = <<>> \/ body.paymentMethod = ""
    THEN "Missing required fields"
    ELSE IF ~phoneRegex(body.phone)
    THEN "Invalid phone number format. Must be a 10-digit valid Indian number."
    ELSE IF ~nameRegex(body.name)
    THEN "Name must contain only letters and be at least 2 characters long."
    ELSE IF body.numberOfGuests <= 0
    THEN "Invalid number of guests"
    ELSE IF body.type # "place" THEN ""
    ELSE IF body.checkIn = NoDate \/ body.checkOut = NoDate
    THEN "Check-in and check-out dates are required"
    ELSE IF body.checkIn = BadDate \/ body.checkOut = BadDate
    THEN "Invalid check-in/check-out date format"
    ELSE IF body.checkOut <= body.checkIn
    THEN "Check-out date must be after check-in date"
    ELSE ""

(* ------------------------ createBooking: pricing --------------------- *)

\* the nights with Math.floor for Math.ceil
nightsFloor(checkIn, checkOut) == (checkOut - checkIn) \div oneDay

\* lines 98-100
nights(checkIn, checkOut) == Ceil(checkOut - checkIn, oneDay)

PlacePrice(itemId, checkIn, checkOut) == places[itemId].price * nights(checkIn, checkOut)

\* lines 109, 117
ItemPrice(type, itemId, numberOfGuests) ==
    (IF type = "experience" THEN ExperienceCatalog[itemId] ELSE ServiceCatalog[itemId])
        * numberOfGuests

\* +(x).toFixed(2) for x = n / 100 hundredths
toFixed2(n) == RoundDiv(n, 100)

\* the fee without Math.max
serviceFeeNoFloor(price) == toFixed2(price * feeRatePercent)

\* line 125: Math.max(50, +(price * 0.05).toFixed(2))
serviceFee(price) == Max(minimumFee * hundredths, toFixed2(price * feeRatePercent))

\* the total without the fee
totalAmountWithoutFee(price) == price

\* line 126
totalAmount(price) == price + serviceFee(price)

\* line 140: `TXN-${Date.now()}-${Math.floor(Math.random() * 100000)}`
Rand == {0}
GeneratedTxn(now, r) == <<"TXN", now, r>>

\* the document with every date field of the body copied, whatever the type
bookingDataAllDates(body, user, price, txn) ==
    [type |-> body.type,
     place |-> IF body.type = "place" THEN body.itemId ELSE NoItem,
     item |-> IF body.type = "place" THEN NoItem ELSE body.itemId,
     user |-> user,
     checkIn |-> body.checkIn,
     checkOut |-> body.checkOut,
     date |-> body.date,
     numberOfGuests |-> body.numberOfGuests,
     price |-> price,
     serviceFee |-> serviceFee(price),
     totalAmount |-> totalAmount(price),
     status |-> CONFIRMED,
     refundRequested |-> FALSE,
     refundRequestedAt |-> -1,
     transactionId |-> IF body.transactionId # NoTxn THEN body.transactionId ELSE txn]

\* the document of the explicit-payment policy: stored pending, to be
\* confirmed by initiatePayment
bookingDataPending(body, user, price, txn) ==
    [type |-> body.type,
     place |-> IF body.type = "place" THEN body.itemId ELSE NoItem,
     item |-> IF body.type = "place" THEN NoItem ELSE body.itemId,
     user |-> user,
     checkIn |-> IF body.type = "place" THEN body.checkIn ELSE NoDate,
     checkOut |-> IF body.type = "place" THEN body.checkOut ELSE NoDate,
     date |-> IF body.type = "place" THEN NoDate ELSE body.date,
     numberOfGuests |-> body.numberOfGuests,
     price |-> price,
     serviceFee |-> serviceFee(price),
     totalAmount |-> totalAmount(price),
     status |-> PENDING,
     refundRequested |-> FALSE,
     refundRequestedAt |-> -1,
     transactionId |-> IF body.transactionId # NoTxn THEN body.transactionId ELSE txn]

\* lines 128-151
bookingData(body, user, price, txn) ==
    [type |-> body.type,
     place |-> IF body.type = "place" THEN body.itemId ELSE NoItem,
     item |-> IF body.type = "place" THEN NoItem ELSE body.itemId,
     user |-> user,
     checkIn |-> IF body.type = "place" THEN body.checkIn ELSE NoDate,
     checkOut |-> IF body.type = "place" THEN body.checkOut ELSE NoDate,
     date |-> IF body.type = "place" THEN NoDate ELSE body.date,
     numberOfGuests |-> body.numberOfGuests,
     price |-> price,
     serviceFee |-> serviceFee(price),
     totalAmount |-> totalAmount(price),
     status |-> CONFIRMED,
     refundRequested |-> FALSE,
     refundRequestedAt |-> -1,
     transactionId |-> IF body.transactionId # NoTxn THEN body.transactionId ELSE txn]

(* ------------------- createBooking: availability check --------------- *)

\* the filter with $lte for $lt in its first clause: a stay that begins on the
\* requested check-out day is taken for a conflict
overlapFilterInclusive(b, itemId, checkIn, checkOut) ==
    /\ b.place = itemId
    /\ b.status = "confirmed"
    /\ \/ (b.checkIn <= checkOut /\ b.checkIn >= checkIn)
       \/ (b.checkOut <= checkOut /\ b.checkOut > checkIn)
       \/ (b.checkIn <= checkIn /\ b.checkOut >= checkOut)

\* the filter without its status clause: every booking of the place blocks
overlapFilterAnyStatus(b, itemId, checkIn, checkOut) ==
    /\ b.place = itemId
    /\ \/ (b.checkIn < checkOut /\ b.checkIn >= checkIn)
       \/ (b.checkOut <= checkOut /\ b.checkOut > checkIn)
       \/ (b.checkIn <= checkIn /\ b.checkOut >= checkOut)

\* lines 84-92: the filter of Booking.findOne
overlapFilter(b, itemId, checkIn, checkOut) ==
    /\ b.place = itemId
    /\ b.status = "confirmed"
    /\ \/ (b.checkIn < checkOut /\ b.checkIn >= checkIn)
       \/ (b.checkOut <= checkOut /\ b.checkOut > checkIn)
       \/ (b.checkIn <= checkIn /\ b.checkOut >= checkOut)

\* whether findOne returns a document
overlappingBooking(itemId, checkIn, checkOut) ==
    \E i \in BookingIds : overlapFilter(bookings[i], itemId, checkIn, checkOut)

(* -------------------------- createBooking: steps --------------------- *)

\* lines 77, 81: `let itemDetails` is assigned in the place case alone; the
\* experience and service cases keep their document in a `const item` of
\* their own block.  <<>> is undefined
itemDetails(body) ==
    IF body.type = "place" THEN <<places[body.itemId]>> ELSE <<>>

\* line 134: itemDetails.address throws a TypeError on undefined, and the
\* catch block answers 500 with its message
addressError == "Cannot read properties of undefined (reading 'address')"


\* lines 16-82 and 105-123: from the request to the first read or write of the
\* booking collection
CreateBookingStart(w, requests) ==
    /\ req[w].pc = "idle"
    /\ \E request \in requests :
         LET user == request[1]
             body == request[2]
             err == ValidationError(body) IN
         IF err # "" THEN Respond(w, "createBooking", 0, user, 400, err)
         ELSE IF body.type = "place" THEN
              IF ~PlaceFound(body.itemId)
              THEN Respond(w, "createBooking", 0, user, 404, "Place not found")
              ELSE Await(w, "createBooking", "check", 0, user, body, NoDoc)
         ELSE IF body.type \in {"experience", "service"} THEN
              IF body.date = NoDate
              THEN Respond(w, "createBooking", 0, user, 400, "Date required")
              ELSE IF body.itemId \notin
                        DOMAIN (IF body.type = "experience" THEN ExperienceCatalog
                                                            ELSE ServiceCatalog)
              THEN Respond(w, "createBooking", 0, user, 404,
                           IF body.type = "experience" THEN "Experience not found"
                                                       ELSE "Service not found")
              ELSE IF itemDetails(body) = <<>>
              THEN Respond(w, "createBooking", 0, user, 500, addressError)
              ELSE \E r \in Rand :
                     Await(w, "createBooking", "persist", 0, user, body,
                           bookingData(body, user,
                                       ItemPrice(body.type, body.itemId, body.numberOfGuests),
                                       GeneratedTxn(clock, r)))
         ELSE Respond(w, "createBooking", 0, user, 400, "Invalid booking type")
    /\ UNCHANGED <<users, bookings, places, clock>>

\* the check made after the document is stored: a conflicting request is
\* refused, but its booking is already in the collection
CreateBookingCheckAfterCreate(w) ==
    /\ req[w].op = "createBooking" /\ req[w].pc = "check"
    /\ LET body == req[w].body
           doc == bookingData(body, req[w].user,
                              PlacePrice(body.itemId, body.checkIn, body.checkOut),
                              GeneratedTxn(clock, 0)) IN
       IF overlappingBooking(body.itemId, body.checkIn, body.checkOut)
       THEN /\ bookings' = Append(bookings, doc)
            /\ Respond(w, "createBooking", 0, req[w].user, 400,
                       "Place already booked for selected dates")
       ELSE /\ bookings' = bookings
            /\ Await(w, "createBooking", "persist", 0, req[w].user, body, doc)
    /\ UNCHANGED <<users, places, clock>>

\* lines 84-151: Booking.findOne has answered
CreateBookingCheck(w) ==
    /\ req[w].op = "createBooking" /\ req[w].pc = "check"
    /\ LET body == req[w].body IN
       IF overlappingBooking(body.itemId, body.checkIn, body.checkOut)
       THEN Respond(w, "createBooking", 0, req[w].user, 400,
                    "Place already booked for selected dates")
       ELSE IF itemDetails(body) = <<>>
       THEN Respond(w, "createBooking", 0, req[w].user, 500, addressError)
       ELSE \E r \in Rand :
              Await(w, "createBooking", "persist", 0, req[w].user, body,
                    bookingData(body, req[w].user,
                                PlacePrice(body.itemId, body.checkIn, body.checkOut),
                                GeneratedTxn(clock, r)))
    /\ UNCHANGED <<users, bookings, places, clock>>

\* lines 153-154: Booking.create, then the 201 answer
CreateBookingPersist(w) ==
    /\ req[w].op = "createBooking" /\ req[w].pc = "persist"
    /\ bookings' = Append(bookings, req[w].doc)
    /\ Respond(w, "createBooking", Len(bookings) + 1, req[w].user, 201, "")
    /\ UNCHANGED <<users, places, clock>>

(* --------------------------- request parameters ---------------------- *)

\* a booking id that is no ObjectId (mongoose.Types.ObjectId.isValid fails)
BadId == -1
\* an absent bookingId in the body
NoId == 0
\* ids a request may name: malformed, absent, every stored document and one
\* well-formed id of no document
IdInputs == {BadId, NoId} \cup (1..(Len(bookings) + 1))

\* the (id, requester) pairs of cancelBooking and requestRefund requests: every
\* requester on every stored document, a guest on the other ids
IdRequests(requesters) ==
    (BookingIds \X requesters) \cup ({BadId, Len(bookings) + 1} \X {NoUser})

\* the requests that name a stored document
StoredRequests(requesters) == BookingIds \X requesters

(* ---------------------------- initiatePayment ------------------------ *)

\* the check as a test for "already paid" alone
NotPendingPaidOnly(booking) == booking.status = CONFIRMED

\* the check as a test for a canceled booking alone
NotPendingCanceledOnly(booking) == booking.status = CANCELED

\* line 170
NotPending(booking) == booking.status # PENDING

\* lines 163-179: Booking.findById has answered; the payment is simulated and
\* the document changed in memory
InitiatePaymentRead(w, ids) ==
    /\ req[w].pc = "idle"
    /\ \E id \in ids, paymentSuccess \in BOOLEAN, r \in Rand :
         IF id = NoId
         THEN Respond(w, "initiatePayment", id, NoUser, 400, "Missing bookingId")
         ELSE IF id = BadId
         THEN Respond(w, "initiatePayment", id, NoUser, 500, "Payment initiation failed")
         ELSE IF id \notin BookingIds
         THEN Respond(w, "initiatePayment", id, NoUser, 404, "Booking not found")
         ELSE IF NotPending(bookings[id])
         THEN Respond(w, "initiatePayment", id, NoUser, 400,
                      "Booking already paid or canceled")
         ELSE IF ~paymentSuccess
         THEN Respond(w, "initiatePayment", id, NoUser, 402, "Payment failed")
         ELSE Await(w, "initiatePayment", "save", id, NoUser, NoBody,
                    [bookings[id] EXCEPT !.transactionId = GeneratedTxn(clock, r),
                                         !.status = CONFIRMED])
    /\ UNCHANGED <<users, bookings, places, clock>>

\* lines 180-182: booking.save() writes the paths the handler changed
InitiatePaymentSave(w) ==
    /\ req[w].op = "initiatePayment" /\ req[w].pc = "save"
    /\ bookings' = [bookings EXCEPT ![req[w].id].transactionId = req[w].doc.transactionId,
                                    ![req[w].id].status = req[w].doc.status]
    /\ RespondTxn(w, "initiatePayment", req[w].id, NoUser, req[w].doc.transactionId)
    /\ UNCHANGED <<users, places, clock>>

(* ----------------------------- cancelBooking ------------------------- *)

\* the comparison without toString(): an ObjectId is never === a string
cancelUnauthorizedNoToString(user, booking) ==
    user # NoUser /\ booking.user # NoUser

\* line 241
cancelUnauthorized(user, booking) ==
    user # NoUser /\ booking.user # NoUser /\ booking.user # user

\* the check comparing with a status no booking has
AlreadyCanceledMisspelt(booking) == booking.status = "cancelled"

\* line 245
AlreadyCanceled(booking) == booking.status = CANCELED

\* lines 229-249
CancelBookingRead(w, requests) ==
    /\ req[w].pc = "idle"
    /\ \E request \in requests :
         LET id == request[1]
             user == request[2] IN
         IF id = BadId
         THEN Respond(w, "cancelBooking", id, user, 400, "Invalid booking ID format")
         ELSE IF id \notin BookingIds
         THEN Respond(w, "cancelBooking", id, user, 404, "Booking not found")
         ELSE IF cancelUnauthorized(user, bookings[id])
         THEN Respond(w, "cancelBooking", id, user, 403, "Unauthorized action")
         ELSE IF AlreadyCanceled(bookings[id])
         THEN Respond(w, "cancelBooking", id, user, 400, "Booking already canceled")
         ELSE Await(w, "cancelBooking", "save", id, user, NoBody,
                    [bookings[id] EXCEPT !.status = CANCELED])
    /\ UNCHANGED <<users, bookings, places, clock>>

\* a save that writes the whole document as it was read, not the changed path
CancelBookingSaveWholeDocument(w) ==
    /\ req[w].op = "cancelBooking" /\ req[w].pc = "save"
    /\ bookings' = [bookings EXCEPT ![req[w].id] = req[w].doc]
    /\ Respond(w, "cancelBooking", req[w].id, req[w].user, 200, "")
    /\ UNCHANGED <<users, places, clock>>

\* lines 250-252
CancelBookingSave(w) ==
    /\ req[w].op = "cancelBooking" /\ req[w].pc = "save"
    /\ bookings' = [bookings EXCEPT ![req[w].id].status = req[w].doc.status]
    /\ Respond(w, "cancelBooking", req[w].id, req[w].user, 200, "")
    /\ UNCHANGED <<users, places, clock>>

(* ----------------------------- requestRefund ------------------------- *)

\* line 272
refundUnauthorized(user, booking) ==
    user # NoUser /\ booking.user # NoUser /\ booking.user # user

\* the check as a test for an unpaid booking alone
NotCanceledPendingOnly(booking) == booking.status = PENDING

\* line 276
NotCanceled(booking) == booking.status # CANCELED

\* line 280
AlreadyRequested(booking) == booking.refundRequested

\* lines 260-285
RequestRefundRead(w, requests) ==
    /\ req[w].pc = "idle"
    /\ \E request \in requests :
         LET id == request[1]
             user == request[2] IN
         IF id = BadId
         THEN Respond(w, "requestRefund", id, user, 400, "Invalid booking ID format")
         ELSE IF id \notin BookingIds
         THEN Respond(w, "requestRefund", id, user, 404, "Booking not found")
         ELSE IF refundUnauthorized(user, bookings[id])
         THEN Respond(w, "requestRefund", id, user, 403, "Unauthorized action")
         ELSE IF NotCanceled(bookings[id])
         THEN Respond(w, "requestRefund", id, user, 400,
                      "Only canceled bookings can be refunded")
         ELSE IF AlreadyRequested(bookings[id])
         THEN Respond(w, "requestRefund", id, user, 400, "Refund already requested")
         ELSE Await(w, "requestRefund", "save", id, user, NoBody,
                    [bookings[id] EXCEPT !.refundRequested = TRUE,
                                         !.refundRequestedAt = clock])
    /\ UNCHANGED <<users, bookings, places, clock>>

\* lines 286-288
RequestRefundSave(w) ==
    /\ req[w].op = "requestRefund" /\ req[w].pc = "save"
    /\ bookings' = [bookings EXCEPT
                      ![req[w].id].refundRequested = req[w].doc.refundRequested,
                      ![req[w].id].refundRequestedAt = req[w].doc.refundRequestedAt]
    /\ Respond(w, "requestRefund", req[w].id, req[w].user, 200, "")
    /\ UNCHANGED <<users, places, clock>>

(* ------------------------------ createPlace -------------------------- *)

\* the role in the token of a signed-in user (authController: register stores
\* role || "customer", login signs it into the token)
UserRole == [u \in Users |-> IF u = "u1" THEN "host" ELSE "customer"]

\* the fields of a createPlace body the model follows
NewPlaceBody == [title |-> "n", price |-> 100000]

\* placeController lines 9-49: Place.create with owner req.user.id, then 201
CreatePlace(w, requesters) ==
    /\ req[w].pc = "idle"
    /\ \E user \in requesters :
         /\ places' = Append(places, PlaceDoc(user, NewPlaceBody.title, NewPlaceBody.price))
         /\ Respond(w, "createPlace", Len(places) + 1, user, 201, "")
    /\ UNCHANGED <<users, bookings, clock>>

(* ------------------------- editPlace and deletePlace ----------------- *)

\* an edit body: the fields Object.assign copies onto the document; "" and
\* NoUser stand for a field the body does not carry
EditBodies == {[title |-> "b", owner |-> NoUser], [title |-> "", owner |-> "u1"],
               [title |-> "", owner |-> "u2"]}

\* the (id, requester, body) triples of editPlace requests, and the
\* (id, requester) pairs of deletePlace requests: every signed-in user on every
\* id ever given out and on one id of no place
EditRequests == (1..(Len(places) + 1)) \X Users \X EditBodies
DeleteRequests == (1..(Len(places) + 1)) \X Users

\* the owner check comparing the owner with itself: it refuses nobody
notAllowedSelfCompare(place, user) == place.owner # place.owner

\* placeController lines 63, 231: place.owner.toString() !== req.user.id
notAllowed(place, user) == place.owner # user

\* Object.assign(place, req.body), line 67
assign(place, body) ==
    [place EXCEPT !.title = IF body.title # "" THEN body.title ELSE @,
                  !.owner = IF body.owner # NoUser THEN body.owner ELSE @]

\* placeController lines 56-67: Place.findById has answered
EditPlaceRead(w, requests) ==
    /\ req[w].pc = "idle"
    /\ \E request \in requests :
         LET id == request[1]
             user == request[2]
             body == request[3] IN
         IF ~PlaceFound(id)
         THEN Respond(w, "editPlace", id, user, 404, "Place not found")
         ELSE IF notAllowed(places[id], user)
         THEN Respond(w, "editPlace", id, user, 403, "Not allowed")
         ELSE Await(w, "editPlace", "save", id, user, body, assign(places[id], body))
    /\ UNCHANGED <<users, bookings, places, clock>>

\* placeController lines 68-70: place.save() writes the changed paths; it
\* rejects when the document is gone, and the catch block answers 422
EditPlaceSave(w) ==
    /\ req[w].op = "editPlace" /\ req[w].pc = "save"
    /\ IF places[req[w].id].deleted
       THEN /\ places' = places
            /\ Respond(w, "editPlace", req[w].id, req[w].user, 422, "No document found")
       ELSE /\ places' = [places EXCEPT ![req[w].id].title = req[w].doc.title,
                                        ![req[w].id].owner = req[w].doc.owner]
            /\ Respond(w, "editPlace", req[w].id, req[w].user, 200, "")
    /\ UNCHANGED <<users, bookings, clock>>

\* placeController lines 224-233
DeletePlaceRead(w, requests) ==
    /\ req[w].pc = "idle"
    /\ \E request \in requests :
         LET id == request[1]
             user == request[2] IN
         IF ~PlaceFound(id)
         THEN Respond(w, "deletePlace", id, user, 404, "Place not found")
         ELSE IF notAllowed(places[id], user)
         THEN Respond(w, "deletePlace", id, user, 403, "Not allowed")
         ELSE Await(w, "deletePlace", "delete", id, user, NoBody, places[id])
    /\ UNCHANGED <<users, bookings, places, clock>>

\* placeController lines 235-236: place.deleteOne(), then the answer
DeletePlaceDelete(w) ==
    /\ req[w].op = "deletePlace" /\ req[w].pc = "delete"
    /\ places' = [places EXCEPT ![req[w].id].deleted = TRUE]
    /\ Respond(w, "deletePlace", req[w].id, req[w].user, 200, "")
    /\ UNCHANGED <<users, bookings, clock>>

(* ------------------------------- register ---------------------------- *)

\* a document of the User collection
UserDoc(name, email, password, role) ==
    [name |-> name, email |-> email, password |-> password, role |-> role]

UserIds == 1..Len(users)

\* a register body; "" is a field the body does not carry (or carries empty)
RegisterBody(name, email, password, role) ==
    [type |-> "register", name |-> name, email |-> email, password |-> password,
     role |-> role]

\* register bodies: two emails, with and without a role, and a body short of
\* each required field
RegisterBodies ==
    {RegisterBody("n", e, "p", r) : e \in {"a@x", "b@x"}, r \in {"", "host"}}
      \cup {RegisterBody("", "a@x", "p", ""), RegisterBody("n", "", "p", ""),
            RegisterBody("n", "a@x", "", "")}

\* authController line 21: !name || !email || !password
missingField(body) == body.name = "" \/ body.email = "" \/ body.password = ""

\* bcrypt.hashSync(password, bcryptSalt), line 29
hashedPassword(password) == <<"bcrypt", password>>

\* User.findOne({ email }), line 25: the documents with that email
existingUser(email) == {i \in UserIds : users[i].email = email}

\* the collection and the requests on their way to User.create fit MaxUsers
RoomForUser ==
    Len(users) + Cardinality({w \in Workers : req[w].op = "register"}) < MaxUsers

\* authController lines 12-25: the body is read and checked, and
\* User.findOne is called
RegisterStart(w, bodies) ==
    /\ req[w].pc = "idle"
    /\ \E body \in bodies :
         IF missingField(body)
         THEN Respond(w, "register", 0, NoUser, 400,
                      "Name, email, and password are required")
         ELSE /\ RoomForUser
              /\ Await(w, "register", "findOne", 0, NoUser, body, NoDoc)
    /\ UNCHANGED <<users, bookings, places, clock>>

\* authController lines 25-30: User.findOne has answered; 409 when it found a
\* user, otherwise the password is hashed and User.create is called
RegisterFindOne(w) ==
    /\ req[w].op = "register" /\ req[w].pc = "findOne"
    /\ IF existingUser(req[w].body.email) # {}
       THEN Respond(w, "register", 0, NoUser, 409, "Email already registered")
       ELSE Await(w, "register", "create", 0, NoUser, req[w].body,
                  UserDoc(req[w].body.name, req[w].body.email,
                          hashedPassword(req[w].body.password),
                          IF req[w].body.role # "" THEN req[w].body.role
                                                   ELSE "customer"))
    /\ UNCHANGED <<users, bookings, places, clock>>

\* authController lines 30-35: User.create has answered.  It inserts the
\* document and the handler answers 201.  Whether the collection carries a
\* unique index on email is decided by models/User.js: with one, an insert
\* under an email the collection holds is rejected instead and the catch
\* block answers 500; both outcomes are taken
RegisterCreate(w) ==
    /\ req[w].op = "register" /\ req[w].pc = "create"
    /\ \/ /\ users' = Append(users, req[w].doc)
          /\ Respond(w, "register", Len(users) + 1, NoUser, 201, "")
       \/ /\ existingUser(req[w].doc.email) # {}
          /\ users' = users
          /\ Respond(w, "register", 0, NoUser, 500, "Registration failed")
    /\ UNCHANGED <<bookings, places, clock>>

(* --------------------------------- time ------------------------------ *)

\* the wall clock read by Date.now() and new Date()
Tick ==
    /\ clock < MaxClock
    /\ clock' = clock + 1
    /\ resp' = NoResp
    /\ UNCHANGED <<users, bookings, places, req>>

(* ----------------------------- specifications ------------------------ *)

\* a booking awaiting its payment step: what the explicit-payment creation
\* policy persists (status pending, no transaction id yet)
PendingBooking(user) ==
    [bookingData(PlaceBody(1, 1, 2), user, PlacePrice(1, 1, 2), NoTxn)
        EXCEPT !.status = PENDING]

InitialCollections == {<<>>} \cup {<<PendingBooking(u)>> : u \in {"u1"}}

Init ==
    /\ places = PlaceCatalog
    /\ users = <<>>
    /\ bookings \in InitialCollections
    /\ req = [w \in Workers |-> Idle]
    /\ resp = NoResp
    /\ clock = 0

\* the collection has room for the documents of another createBooking
Room(max) ==
    Len(bookings) + Cardinality({w \in Workers : req[w].op = "createBooking"}) < max

\* requests interleave at every await; the requests name stored documents (a
\* request for any other id is answered in its first step and changes nothing:
\* SeqSpec draws those)
Next ==
    \/ \E w \in Workers : Room(MaxBookings) /\ CreateBookingStart(w, LifecycleRequests)
    \/ \E w \in Workers : CreateBookingCheck(w)
    \/ \E w \in Workers : CreateBookingPersist(w)
    \/ \E w \in Workers : InitiatePaymentRead(w, BookingIds)
    \/ \E w \in Workers : InitiatePaymentSave(w)
    \/ \E w \in Workers : CancelBookingRead(w, StoredRequests(Requesters))
    \/ \E w \in Workers : CancelBookingSave(w)
    \/ \E w \in Workers : RequestRefundRead(w, StoredRequests(Requesters))
    \/ \E w \in Workers : RequestRefundSave(w)
    \/ Tick

Spec == Init /\ [][Next]_vars

\* requests are handled one at a time, each from its first step to its answer
SeqNext ==
    \/ Room(MaxBookings) /\ CreateBookingStart("w1", SeqRequests)
    \/ CreateBookingCheck("w1")
    \/ CreateBookingPersist("w1")
    \/ InitiatePaymentRead("w1", IdInputs)
    \/ InitiatePaymentSave("w1")
    \/ CancelBookingRead("w1", IdRequests(Requesters))
    \/ CancelBookingSave("w1")
    \/ RequestRefundRead("w1", IdRequests(Requesters))
    \/ RequestRefundSave("w1")
    \/ Tick

SeqSpec == Init /\ [][SeqNext]_vars

\* createBooking and cancelBooking requests alone, interleaving at every await
AvailabilityNext ==
    \/ \E w \in Workers : Room(MaxStays) /\ CreateBookingStart(w, AvailabilityRequests)
    \/ \E w \in Workers : CreateBookingCheck(w)
    \/ \E w \in Workers : CreateBookingPersist(w)
    \/ \E w \in Workers : CancelBookingRead(w, IdRequests({NoUser}))
    \/ \E w \in Workers : CancelBookingSave(w)

AvailabilitySpec == Init /\ [][AvailabilityNext]_vars

\* the base price at which price * 0.05 equals the fee floor
FloorPrice == (minimumFee * hundredths * 100) \div feeRatePercent

\* base prices of the pricing specification: nothing, and the prices around
\* the floor price whose fee is no tie of toFixed(2)
PriceInputs ==
    {p \in {0} \cup ((FloorPrice - PriceSpread)..(FloorPrice + PriceSpread)) :
        (p * feeRatePercent) % 100 # 50}

\* one or two nights at the only place
FeeRequests == {"u1"} \X {PlaceBody(1, 1, 1 + oneDay), PlaceBody(1, 1, 1 + 2 * oneDay)}

FeeInit ==
    /\ places \in {<<PlaceDoc("u1", "a", p)>> : p \in PriceInputs}
    /\ users = <<>>
    /\ bookings = <<>>
    /\ req = [w \in Workers |-> Idle]
    /\ resp = NoResp
    /\ clock = 0

\* createBooking requests on a place of any of those prices, one at a time
FeeNext ==
    \/ Room(MaxBookings) /\ CreateBookingStart("w1", FeeRequests)
    \/ CreateBookingCheck("w1")
    \/ CreateBookingPersist("w1")

FeeSpec == FeeInit /\ [][FeeNext]_vars

\* every operation on a collection that is empty before the first request, so
\* that each booking it holds was stored by createBooking; requests interleave
\* at every await.  No step is given for initiatePayment's booking.save():
\* whether a request ever gets that far is what is checked here
CreatedInit ==
    /\ places = PlaceCatalog
    /\ users = <<>>
    /\ bookings = <<>>
    /\ req = [w \in Workers |-> Idle]
    /\ resp = NoResp
    /\ clock = 0

CreatedNext ==
    \/ \E w \in Workers : Room(MaxBookings) /\ CreateBookingStart(w, LifecycleRequests)
    \/ \E w \in Workers : CreateBookingCheck(w)
    \/ \E w \in Workers : CreateBookingPersist(w)
    \/ \E w \in Workers : InitiatePaymentRead(w, BookingIds)
    \/ \E w \in Workers : CancelBookingRead(w, StoredRequests(Requesters))
    \/ \E w \in Workers : CancelBookingSave(w)
    \/ \E w \in Workers : RequestRefundRead(w, StoredRequests(Requesters))
    \/ \E w \in Workers : RequestRefundSave(w)
    \/ Tick

CreatedSpec == CreatedInit /\ [][CreatedNext]_vars

\* createBooking requests of every kind, handled one at a time on a
\* collection that is empty before the first
CreateInit ==
    /\ places = PlaceCatalog
    /\ users = <<>>
    /\ bookings = <<>>
    /\ req = [w \in Workers |-> Idle]
    /\ resp = NoResp
    /\ clock = 0

CreateNext ==
    \/ Room(MaxStays) /\ CreateBookingStart("w1", SeqRequests)
    \/ CreateBookingCheck("w1")
    \/ CreateBookingPersist("w1")

CreateSpec == CreateInit /\ [][CreateNext]_vars

\* the place collection alone, empty before the first createPlace
PlaceInit ==
    /\ places = <<>>
    /\ users = <<>>
    /\ bookings = <<>>
    /\ req = [w \in Workers |-> Idle]
    /\ resp = NoResp
    /\ clock = 0

\* createPlace, editPlace and deletePlace requests by signed-in users, handled
\* one at a time
PlaceNext ==
    \/ Len(places) < MaxPlaces /\ CreatePlace("w1", Users)
    \/ EditPlaceRead("w1", EditRequests)
    \/ EditPlaceSave("w1")
    \/ DeletePlaceRead("w1", DeleteRequests)
    \/ DeletePlaceDelete("w1")

PlaceSpec == PlaceInit /\ [][PlaceNext]_vars

\* the user collection alone, empty before the first register
RegisterInit ==
    /\ places = <<>>
    /\ users = <<>>
    /\ bookings = <<>>
    /\ req = [w \in Workers |-> Idle]
    /\ resp = NoResp
    /\ clock = 0

\* register requests, interleaving at every await
RegisterNext ==
    \/ \E w \in Workers : RegisterStart(w, RegisterBodies)
    \/ \E w \in Workers : RegisterFindOne(w)
    \/ \E w \in Workers : RegisterCreate(w)

RegisterSpec == RegisterInit /\ [][RegisterNext]_vars

(* ===================================================================== *)
(* Claims                                                                *)
(* ===================================================================== *)

\* the half-open ranges [a.checkIn, a.checkOut) and [ci, co) intersect
HalfOpenOverlap(b, ci, co) == b.checkIn < co /\ b.checkOut > ci

ConfirmedStay(b) == b.type = "place" /\ b.status = CONFIRMED

\* worker w takes the step, and it is the availability check of a createBooking
CheckStep(w) == req[w].op = "createBooking" /\ req[w].pc = "check" /\ req'[w] # req[w]

ConflictAnswer(r) ==
    r.op = "createBooking" /\ r.code = 400
        /\ r.error = "Place already booked for selected dates"

\* C1: no two confirmed place bookings of the same place have overlapping
\* half-open ranges [checkIn, checkOut), in any state that interleaved
\* createBooking and cancelBooking requests reach.
C1_NoDoubleBooking ==
    \A i \in BookingIds, j \in BookingIds :
        (i # j /\ ConfirmedStay(bookings[i]) /\ ConfirmedStay(bookings[j])
               /\ bookings[i].place = bookings[j].place)
            => ~HalfOpenOverlap(bookings[i], bookings[j].checkIn, bookings[j].checkOut)

\* C2: the availability check of a place request for [ci, co), ci < co, answers
\* with the "already booked" error exactly when some confirmed booking B of that
\* place has B.checkIn < co and B.checkOut > ci; otherwise the request goes on
\* to be persisted, and persisting answers 201 with the requested stay stored.
C2_ConflictIffOverlap ==
    [][\A w \in Workers :
         /\ CheckStep(w) =>
              LET body == req[w].body
                  conflict == \E i \in BookingIds :
                                 /\ bookings[i].place = body.itemId
                                 /\ bookings[i].status = CONFIRMED
                                 /\ HalfOpenOverlap(bookings[i], body.checkIn, body.checkOut)
              IN /\ body.checkIn < body.checkOut
                 /\ \A i \in BookingIds : bookings[i].type = "place"
                                            => bookings[i].checkIn < bookings[i].checkOut
                 /\ conflict <=> ConflictAnswer(resp')
                 /\ conflict => (req'[w].pc = "idle" /\ bookings' = bookings)
                 /\ ~conflict => (req'[w].pc = "persist" /\ resp' = NoResp)
         /\ (req[w].op = "createBooking" /\ req[w].pc = "persist" /\ req'[w] # req[w]) =>
              /\ resp'.op = "createBooking" /\ resp'.code = 201
              /\ Len(bookings') = Len(bookings) + 1
              /\ resp'.id = Len(bookings')
              /\ bookings'[resp'.id].status = CONFIRMED
              /\ req[w].body.type = "place" =>
                   /\ bookings'[resp'.id].place = req[w].body.itemId
                   /\ bookings'[resp'.id].checkIn = req[w].body.checkIn
                   /\ bookings'[resp'.id].checkOut = req[w].body.checkOut
      ]_vars

\* C2 witness: a stay that only touches a confirmed stay of the same place (one
\* ends on the day the other begins) has just been accepted.
C2_TouchingAccepted ==
    /\ resp.op = "createBooking" /\ resp.code = 201
    /\ \E i \in BookingIds :
         /\ i # resp.id
         /\ ConfirmedStay(bookings[i]) /\ ConfirmedStay(bookings[resp.id])
         /\ bookings[i].place = bookings[resp.id].place
         /\ \/ bookings[i].checkOut = bookings[resp.id].checkIn
            \/ bookings[resp.id].checkOut = bookings[i].checkIn

\* C3: a pending or canceled booking never blocks: when every booking of the
\* place that overlaps the requested range is pending or canceled, the
\* availability check lets the request through and it is persisted.
C3_OnlyConfirmedBlock ==
    [][\A w \in Workers :
         CheckStep(w) =>
            LET body == req[w].body
                blockers == {i \in BookingIds :
                               /\ bookings[i].place = body.itemId
                               /\ HalfOpenOverlap(bookings[i], body.checkIn, body.checkOut)}
            IN (\A i \in blockers : bookings[i].status \in {PENDING, CANCELED})
                  => (req'[w].pc = "persist" /\ ~ConflictAnswer(resp'))
      ]_vars

\* C3 witness: a stay was canceled by cancelBooking and a later request for an
\* overlapping stay at the same place has just been accepted.
C3_RebookedAfterCancel ==
    /\ resp.op = "createBooking" /\ resp.code = 201
    /\ \E i \in BookingIds :
         /\ i < resp.id
         /\ bookings[i].type = "place" /\ bookings[i].status = CANCELED
         /\ bookings[i].place = bookings[resp.id].place
         /\ HalfOpenOverlap(bookings[i], bookings[resp.id].checkIn, bookings[resp.id].checkOut)

\* the status changes the lifecycle allows
AllowedTransitions ==
    {<<PENDING, CONFIRMED>>, <<CONFIRMED, CANCELED>>, <<PENDING, CANCELED>>}

\* C4: with the requests handled one at a time, a step changes a booking's
\* status only along pending -> confirmed, confirmed -> canceled or
\* pending -> canceled, and never changes the status of a canceled booking.
C4_StatusMonotone ==
    [][\A i \in BookingIds :
         /\ bookings'[i].status # bookings[i].status
              => <<bookings[i].status, bookings'[i].status>> \in AllowedTransitions
         /\ bookings[i].status = CANCELED => bookings'[i].status = CANCELED
      ]_vars

\* C4 witness: initiatePayment has just been refused on a canceled booking,
\* which is still canceled.
C4_PaymentRefusedOnCanceled ==
    /\ resp.op = "initiatePayment" /\ resp.code = 400
    /\ resp.error = "Booking already paid or canceled"
    /\ resp.id \in BookingIds
    /\ bookings[resp.id].status = CANCELED

RefundSuccess(i) ==
    /\ resp'.op = "requestRefund" /\ resp'.code = 200 /\ resp'.id = i
    /\ \E w \in Workers : req[w].op = "requestRefund" /\ req'[w] # req[w]

\* C6: once a booking's refund request is recorded (by the request that
\* succeeded), no further requestRefund request on it returns success and its
\* refundRequestedAt is never written again.
C6_RefundExactlyOnce ==
    [][\A i \in BookingIds :
         bookings[i].refundRequested =>
            /\ ~RefundSuccess(i)
            /\ bookings'[i].refundRequestedAt = bookings[i].refundRequestedAt
      ]_vars

Permitted(user, b) == user = NoUser \/ b.user = NoUser \/ b.user = user

\* this step is the first step of an `op` request by `user` on stored booking i:
\* the handler has read the booking and either answered at once or gone on to save
Handled(op, i, user) ==
    \/ /\ req' = req
       /\ resp'.op = op /\ resp'.id = i /\ resp'.user = user
    \/ \E w \in Workers :
         /\ req[w].pc = "idle" /\ req'[w].pc = "save"
         /\ req'[w].op = op /\ req'[w].id = i /\ req'[w].user = user

\* this step answered such a request at once, with `code` and `error`
Refused(op, i, user, code, error) ==
    /\ req' = req
    /\ resp' = [op |-> op, id |-> i, user |-> user, code |-> code, error |-> error,
                transactionId |-> NoTxn]
    /\ bookings' = bookings

\* this step let such a request through to booking.save()
PassedToSave(op, i, user) ==
    \E w \in Workers :
        /\ req[w].pc = "idle" /\ req'[w].pc = "save"
        /\ req'[w].op = op /\ req'[w].id = i /\ req'[w].user = user
        /\ resp' = NoResp /\ bookings' = bookings

\* C8: requestRefund by a permitted requester on a booking that is not
\* canceled is answered 400 "Only canceled bookings can be refunded", and on a
\* canceled booking whose refund is already requested 400 "Refund already
\* requested"; either way nothing stored changes.
C8_RefundGating ==
    [][\A i \in BookingIds, user \in Requesters :
         (Handled("requestRefund", i, user) /\ Permitted(user, bookings[i])) =>
            /\ bookings[i].status # CANCELED =>
                 Refused("requestRefund", i, user, 400,
                         "Only canceled bookings can be refunded")
            /\ (bookings[i].status = CANCELED /\ bookings[i].refundRequested) =>
                 Refused("requestRefund", i, user, 400, "Refund already requested")
      ]_vars

\* C8 witness: requestRefund has just been refused on a confirmed booking.
C8_RefundRefusedOnConfirmed ==
    /\ resp.op = "requestRefund" /\ resp.code = 400
    /\ resp.error = "Only canceled bookings can be refunded"
    /\ resp.id \in BookingIds
    /\ bookings[resp.id].status = CONFIRMED
    /\ ~bookings[resp.id].refundRequested

\* C9 as claimed: cancelBooking on a canceled booking is answered 400 "Booking
\* already canceled" whoever asks, and changes nothing; by a permitted requester
\* on a pending or confirmed booking it stores status canceled and answers 200.
C9_CancelRejectsCanceledAnyRequester ==
    [][\A i \in BookingIds, user \in Requesters :
         /\ (Handled("cancelBooking", i, user) /\ bookings[i].status = CANCELED) =>
               Refused("cancelBooking", i, user, 400, "Booking already canceled")
         /\ (Handled("cancelBooking", i, user) /\ bookings[i].status # CANCELED
                /\ Permitted(user, bookings[i])) =>
               PassedToSave("cancelBooking", i, user)
      ]_vars

\* C9, amended: cancelBooking by a permitted requester on a canceled booking is
\* answered 400 "Booking already canceled"; by any other requester it is
\* answered 403 "Unauthorized action"; either way it changes nothing and never
\* reports success.  By a permitted requester on a pending or confirmed booking
\* it goes on to save, and the save stores status canceled and answers 200.
C9_CancelRejectsCanceled ==
    [][/\ \A i \in BookingIds, user \in Requesters :
            /\ (Handled("cancelBooking", i, user) /\ bookings[i].status = CANCELED) =>
                  IF Permitted(user, bookings[i])
                  THEN Refused("cancelBooking", i, user, 400, "Booking already canceled")
                  ELSE Refused("cancelBooking", i, user, 403, "Unauthorized action")
            /\ (Handled("cancelBooking", i, user) /\ bookings[i].status # CANCELED
                   /\ Permitted(user, bookings[i])) =>
                  PassedToSave("cancelBooking", i, user)
       /\ \A w \in Workers :
            (req[w].op = "cancelBooking" /\ req[w].pc = "save" /\ req'[w] # req[w]) =>
               /\ bookings'[req[w].id].status = CANCELED
               /\ resp'.op = "cancelBooking" /\ resp'.id = req[w].id
               /\ resp'.user = req[w].user /\ resp'.code = 200
      ]_vars

\* C9 witness: a second cancel by a permitted requester has just been refused
\* on a booking that is canceled.
C9_SecondCancelRefused ==
    /\ resp.op = "cancelBooking" /\ resp.code = 400
    /\ resp.error = "Booking already canceled"
    /\ resp.id \in BookingIds
    /\ bookings[resp.id].status = CANCELED
    /\ Permitted(resp.user, bookings[resp.id])

LifecycleOps == {"cancelBooking", "requestRefund"}

C11_PaymentStateRule ==
    [][/\ \A i \in BookingIds :
            Handled("initiatePayment", i, NoUser) =>
               IF bookings[i].status # PENDING
               THEN Refused("initiatePayment", i, NoUser, 400,
                            "Booking already paid or canceled")
               ELSE \/ Refused("initiatePayment", i, NoUser, 402, "Payment failed")
                    \/ PassedToSave("initiatePayment", i, NoUser)
       /\ \A w \in Workers :
            (req[w].op = "initiatePayment" /\ req[w].pc = "save" /\ req'[w] # req[w]) =>
               /\ resp'.op = "initiatePayment" /\ resp'.code = 200
               /\ resp'.id = req[w].id /\ resp'.transactionId # NoTxn
               /\ bookings'[req[w].id].status = CONFIRMED
               /\ bookings'[req[w].id].transactionId = resp'.transactionId
               /\ \A j \in BookingIds : j # req[w].id => bookings'[j] = bookings[j]
       /\ (resp'.op = "initiatePayment" /\ resp'.code = 200 /\ resp' # resp) =>
            \E w \in Workers : req[w].op = "initiatePayment" /\ req[w].pc = "save"
                                   /\ req'[w] = Idle
      ]_vars

\* C11 witness: a payment has just succeeded: the booking is confirmed and
\* carries the transaction id of the answer.
C11_PaymentSucceeded ==
    /\ resp.op = "initiatePayment" /\ resp.code = 200
    /\ resp.id \in BookingIds
    /\ bookings[resp.id].status = CONFIRMED
    /\ bookings[resp.id].transactionId = resp.transactionId
    /\ resp.transactionId # NoTxn

\* C12: a well-formed experience or service request with a date and an item of
\* the catalog is persisted with price = base price x numberOfGuests,
\* serviceFee = max(50, 5% of price) and totalAmount = price + serviceFee, and
\* createBooking never answers with the internal error (500).
C12_ItemCreation ==
    /\ (resp.op = "createBooking") => resp.code # 500
    /\ \A i \in BookingIds :
          bookings[i].type \in {"experience", "service"} =>
             /\ bookings[i].price =
                    ItemPrice(bookings[i].type, bookings[i].item, bookings[i].numberOfGuests)
             /\ bookings[i].serviceFee = serviceFee(bookings[i].price)
             /\ bookings[i].totalAmount = bookings[i].price + bookings[i].serviceFee

\* C13: a place request whose checkOut is not after its checkIn is answered
\* 400 "Check-out date must be after check-in date" and stores nothing, so
\* every stored place booking has checkOut > checkIn, a number of nights
\* n >= 1 that is the least whole number of days covering the stay, and
\* price = the place's base price x n.
C13_PlacePricing ==
    [][/\ (resp' # resp /\ resp'.error = "Check-out date must be after check-in date") =>
            (resp'.op = "createBooking" /\ resp'.code = 400 /\ bookings' = bookings)
       /\ \A i \in 1..Len(bookings') :
            bookings'[i].type = "place" =>
               LET b == bookings'[i] IN
               /\ b.checkOut > b.checkIn
               /\ \E n \in 1..(b.checkOut - b.checkIn) :
                     /\ (n - 1) * oneDay < b.checkOut - b.checkIn
                     /\ b.checkOut - b.checkIn <= n * oneDay
                     /\ b.price = places[b.place].price * n
      ]_vars

\* C13 witness: three nights at base price 1000.00 have just been stored with
\* price 3000.00, fee 150.00 and total 3150.00.
C13_ThreeNightsStored ==
    /\ resp.op = "createBooking" /\ resp.code = 201
    /\ \E i \in BookingIds :
          /\ bookings[i].type = "place" /\ places[bookings[i].place].price = 100000
          /\ bookings[i].checkOut - bookings[i].checkIn = 3 * oneDay
          /\ bookings[i].price = 300000 /\ bookings[i].serviceFee = 15000
          /\ bookings[i].totalAmount = 315000

\* C14: every booking createBooking stores has a serviceFee that is the
\* larger of 50.00 and 5% of its price rounded to the nearest hundredth; the
\* fee is never below 50.00, and a price of 0 has the fee 50.00.
C14_ServiceFeeFloor ==
    \A i \in BookingIds :
        LET b == bookings[i] IN
        /\ b.price >= 0
        /\ b.serviceFee >= minimumFee * hundredths
        /\ b.price = 0 => b.serviceFee = minimumFee * hundredths
        /\ \E r \in 0..(b.price + 1) :
              /\ 100 * r - feeRatePercent * b.price \in (-50)..50
              /\ b.serviceFee = IF r > minimumFee * hundredths THEN r
                                                              ELSE minimumFee * hundredths

\* C14 witness: a free stay has just been stored with the fee 50.00.
C14_FreeStayPaysFloor ==
    /\ resp.op = "createBooking" /\ resp.code = 201
    /\ \E i \in BookingIds :
          /\ bookings[i].price = 0
          /\ bookings[i].serviceFee = minimumFee * hundredths
          /\ bookings[i].totalAmount = minimumFee * hundredths

\* C15: every stored booking has totalAmount = price + serviceFee; the step
\* that stores a booking takes its amounts from the place and the stay, whatever
\* totalPrice the request body carries; and no later step of initiatePayment,
\* cancelBooking or requestRefund changes price, serviceFee or totalAmount.
C15_TotalInvariant ==
    [][/\ \A i \in 1..Len(bookings') :
            bookings'[i].totalAmount = bookings'[i].price + bookings'[i].serviceFee
       /\ \A i \in BookingIds :
            /\ bookings'[i].price = bookings[i].price
            /\ bookings'[i].serviceFee = bookings[i].serviceFee
            /\ bookings'[i].totalAmount = bookings[i].totalAmount
       /\ \A w \in Workers :
            (req[w].op = "createBooking" /\ req[w].pc = "persist" /\ req'[w] # req[w]) =>
               LET b == bookings'[Len(bookings')]
                   body == req[w].body IN
               /\ Len(bookings') = Len(bookings) + 1
               /\ b.totalAmount = b.price + b.serviceFee
               /\ b.serviceFee >= minimumFee * hundredths
               /\ b.totalAmount # body.totalPrice
               /\ \E n \in 1..(body.checkOut - body.checkIn) :
                     /\ (n - 1) * oneDay < body.checkOut - body.checkIn
                     /\ body.checkOut - body.checkIn <= n * oneDay
                     /\ b.price = places[body.itemId].price * n
      ]_vars

\* C15 witness: a stored booking has been canceled and its refund requested,
\* and its totalAmount is still its price plus its serviceFee.
C15_TotalKeptThroughLifecycle ==
    \E i \in BookingIds :
        /\ bookings[i].status = CANCELED /\ bookings[i].refundRequested
        /\ bookings[i].transactionId # NoTxn
        /\ bookings[i].price = 100000 /\ bookings[i].serviceFee = 5000
        /\ bookings[i].totalAmount = 105000

\* C16: no two bookings of the collection carry the same transactionId,
\* whether the caller supplied it, createBooking generated it or
\* initiatePayment assigned it.
C16_TransactionIdUnique ==
    \A i \in BookingIds, j \in BookingIds :
        (i # j /\ bookings[i].transactionId # NoTxn) =>
            bookings[i].transactionId # bookings[j].transactionId

\* C17: every stored place booking has checkIn and checkOut and no date, every
\* stored experience or service booking has a date and no checkIn or checkOut,
\* and a request without the date field(s) of its type is answered 400 and
\* stores nothing.
C17_DateFieldsFollowType ==
    [][/\ \A i \in 1..Len(bookings') :
            LET b == bookings'[i] IN
            /\ b.type \in {"place", "experience", "service"}
            /\ b.type = "place" =>
                  (b.checkIn \in Nat \ {NoDate} /\ b.checkOut \in Nat \ {NoDate}
                      /\ b.date = NoDate /\ b.place # NoItem /\ b.item = NoItem)
            /\ b.type # "place" =>
                  (b.date \in Nat \ {NoDate} /\ b.checkIn = NoDate /\ b.checkOut = NoDate
                      /\ b.item # NoItem /\ b.place = NoItem)
       /\ (resp' # resp /\ resp'.error \in {"Check-in and check-out dates are required",
                                            "Date required"}) =>
            (resp'.op = "createBooking" /\ resp'.code = 400 /\ bookings' = bookings)
      ]_vars

\* C17 witness: a place booking has just been stored with its checkIn and
\* checkOut and without a date.
C17_PlaceStoredWithStayDates ==
    /\ resp.op = "createBooking" /\ resp.code = 201
    /\ bookings[resp.id].type = "place"
    /\ bookings[resp.id].checkIn = 1 /\ bookings[resp.id].checkOut = 2
    /\ bookings[resp.id].date = NoDate

\* C18: createPlace creates a place only for a requester whose role is host:
\* every step that adds a place answers a request of a host.
C18_OnlyHostsCreate ==
    [][Len(places') > Len(places) =>
          (resp'.op = "createPlace" /\ UserRole[resp'.user] = "host")]_vars

\* the requester may change or remove place i: they are its owner now
Owns(user, i) == places[i].owner = user

\* C19: editPlace and deletePlace by a requester who is not the owner of the
\* place answer 403 "Not allowed" and leave every place as it is; a step that
\* changes or removes a place is the save or deleteOne of a request by the user
\* who owns it in the state the step starts from.
C19_OwnerOnly ==
    [][/\ \A i \in PlaceIds, user \in Users, op \in {"editPlace", "deletePlace"} :
            (Handled(op, i, user) /\ ~places[i].deleted /\ ~Owns(user, i)) =>
               /\ req' = req /\ places' = places
               /\ resp'.op = op /\ resp'.id = i /\ resp'.user = user
               /\ resp'.code = 403 /\ resp'.error = "Not allowed"
       /\ \A i \in PlaceIds :
            places'[i] # places[i] =>
               \E w \in Workers :
                  /\ req[w].op \in {"editPlace", "deletePlace"}
                  /\ req[w].pc \in {"save", "delete"}
                  /\ req[w].id = i /\ req'[w] = Idle
                  /\ Owns(req[w].user, i)
                  /\ resp'.code = 200 /\ resp'.user = req[w].user
                  /\ \A j \in PlaceIds : j # i => places'[j] = places[j]
      ]_vars

\* C19 witness: a requester who does not own a place has just been refused
\* with 403, after the place had passed from its creator to another owner.
C19_StrangerNotAllowed ==
    /\ resp.op \in {"editPlace", "deletePlace"} /\ resp.code = 403
    /\ resp.error = "Not allowed"
    /\ resp.id \in PlaceIds /\ ~places[resp.id].deleted
    /\ places[resp.id].owner # resp.user
    /\ places[resp.id].owner = "u2" /\ places[resp.id].title = "b"

\* C20: a createBooking step that answers with an error leaves the booking
\* collection exactly as it was; the collection changes only in the step that
\* answers 201, which appends one booking and changes no stored one.
C20_FailedCreationChangesNothing ==
    [][/\ (resp'.op = "createBooking" /\ resp'.code # 201) => bookings' = bookings
       /\ (\E w \in Workers : req[w].op = "createBooking" /\ req'[w] # req[w]
                                 /\ req[w].pc # "persist") => bookings' = bookings
       /\ bookings' # bookings =>
            /\ Len(bookings') = Len(bookings) + 1
            /\ SubSeq(bookings', 1, Len(bookings)) = bookings
            /\ resp'.op = "createBooking" /\ resp'.code = 201
            /\ resp'.id = Len(bookings')
      ]_vars

\* C20 witness: a request has just been refused for a date conflict, and the
\* collection holds the one booking it held before.
C20_ConflictStoredNothing ==
    /\ resp.op = "createBooking" /\ resp.code = 400
    /\ resp.error = "Place already booked for selected dates"
    /\ Len(bookings) = 1

\* the fields of a booking no lifecycle operation may touch
Identity(b) ==
    <<b.type, b.place, b.item, b.user, b.checkIn, b.checkOut, b.date,
      b.numberOfGuests, b.price, b.serviceFee, b.totalAmount>>

FrameOps == {"initiatePayment", "cancelBooking", "requestRefund"}

\* worker w takes the step, and it is the save of an `op` request
SaveStep(w, op) == req[w].op = op /\ req[w].pc = "save" /\ req'[w] # req[w]

C22_PendingUnreachable ==
    [][/\ \A i \in 1..Len(bookings') :
            i \notin BookingIds => bookings'[i].status = CONFIRMED
       /\ \A i \in BookingIds :
            /\ bookings'[i].status # PENDING
            /\ bookings'[i].transactionId = bookings[i].transactionId
            /\ Handled("initiatePayment", i, NoUser) =>
                  Refused("initiatePayment", i, NoUser, 400,
                          "Booking already paid or canceled")
       /\ \A w \in Workers : req'[w].op # "initiatePayment"
      ]_vars

\* C22 witness: initiatePayment has just been refused on a booking that
\* createBooking stored, which is still confirmed under its own transaction id.
C22_PaymentRefusedOnCreated ==
    /\ resp.op = "initiatePayment" /\ resp.code = 400
    /\ resp.error = "Booking already paid or canceled"
    /\ resp.id \in BookingIds
    /\ bookings[resp.id].status = CONFIRMED
    /\ bookings[resp.id].transactionId = GeneratedTxn(0, 0)

C24_OwnershipStable ==
    [][/\ \A i \in PlaceIds : places'[i].owner = places[i].owner
       /\ Len(places') > Len(places) =>
             /\ resp'.op = "createPlace"
             /\ places'[Len(places')].owner = resp'.user
      ]_vars

\* C25: no two persisted users have the same email, and a register request
\* whose email belongs to a persisted user when one of its awaited calls
\* answers is answered 409 "Email already registered" and creates no user.
C25_EmailUnique ==
    [][/\ \A i, j \in 1..Len(users') :
            users'[i].email = users'[j].email => i = j
       /\ \A w \in Workers :
            (/\ req[w].op = "register"
             /\ req'[w] # req[w]
             /\ existingUser(req[w].body.email) # {})
              => /\ resp'.op = "register"
                 /\ resp'.code = 409
                 /\ resp'.error = "Email already registered"
                 /\ users' = users
      ]_vars

====
